---------------------------- MODULE Spec2Model ----------------------------
(***************************************************************************)
(* CHIP-8 interpreter core (src/src/emu.rs): the machine state of struct   *)
(* Chip8, Instruction::decode, Instruction::execute, Chip8::new and        *)
(* Chip8::step.                                                            *)
(*                                                                         *)
(* Encoding of Rust values:                                                *)
(*   u8 / u16      naturals, every operation reduced to its width          *)
(*   u64 (a row)   the set of its set bit positions, 0 = least significant *)
(*   [T; n]        a function on 0..n-1                                     *)
(*   Instant       only durations are observable: last_dec is the age, in  *)
(*                 milliseconds, of the instant the field holds, as of the *)
(*                 latest now a step sampled; elapsed is the value of      *)
(*                 now.duration_since(self.last_dec) in that step          *)
(*   panic         the field panicked; the process is gone afterwards      *)
(*   overflow      arithmetic overflow panics in a build with overflow     *)
(*                 checks and wraps in a build without: overflow_checks    *)
(*                 is chosen at construction and never changes             *)
(***************************************************************************)
EXTENDS Integers, Sequences, FiniteSets, TLC

\* ------------------------------------------------------------ constants

\* ram: [u8; 4096]
RamLen == 4096
\* stk: [u16; 16]
StkLen == 16
\* v: [u8; 16]
VLen == 16
\* screen: [u64; 32]
ScreenLen == 32
\* width of one screen row (u64)
RowBits == 64
\* ram.resize(512, 0): the program image starts here; pc: 0x200
RomBase == 512
\* LDIS: 0x050
FontBase == 80

U8 == 256
U16 == 65536

\* --------------------------------------------------------- bit operations

RECURSIVE BitAnd(_, _)
\* a & b
BitAnd(a, b) ==
    IF a = 0 \/ b = 0 THEN 0
    ELSE (IF a % 2 = 1 /\ b % 2 = 1 THEN 1 ELSE 0) + 2 * BitAnd(a \div 2, b \div 2)

RECURSIVE BitOr(_, _)
\* a | b
BitOr(a, b) ==
    IF a = 0 THEN b
    ELSE IF b = 0 THEN a
    ELSE (IF a % 2 = 1 \/ b % 2 = 1 THEN 1 ELSE 0) + 2 * BitOr(a \div 2, b \div 2)

RECURSIVE BitXor(_, _)
\* a ^ b
BitXor(a, b) ==
    IF a = 0 THEN b
    ELSE IF b = 0 THEN a
    ELSE (IF a % 2 # b % 2 THEN 1 ELSE 0) + 2 * BitXor(a \div 2, b \div 2)

RECURSIVE Pow2(_)
Pow2(k) == IF k = 0 THEN 1 ELSE 2 * Pow2(k - 1)

\* a >> k on an unsigned value, k below the width
Shr(a, k) == a \div Pow2(k)

\* (sprite as u64): the set of set bit positions of an 8-bit value
Bits(b) == {k \in 0..7 : (b \div Pow2(k)) % 2 = 1}

\* row << k on u64, k below the width: bits pushed past bit 63 are lost
RowShl(row, k) == {b + k : b \in {c \in row : c + k < RowBits}}

\* row >> k on u64, k below the width: bits pushed below bit 0 are lost
RowShr(row, k) == {b - k : b \in {c \in row : c >= k}}

\* row ^ mask on u64
RowXor(row, mask) == (row \ mask) \cup (mask \ row)

\* ----------------------------------------------------- Instruction::decode

None == [op |-> "None"]

\* the innermost match of decode with LDMV and LDVM exchanged
DecodeI3Swapped(ins, x) ==
    LET i3 == BitAnd(ins, 61695)
    IN  CASE i3 = 57502 -> [op |-> "SKP", x |-> x]
          [] i3 = 57505 -> [op |-> "SKNP", x |-> x]
          [] i3 = 61447 -> [op |-> "LDVD", x |-> x]
          [] i3 = 61450 -> [op |-> "LDK", x |-> x]
          [] i3 = 61461 -> [op |-> "LDDV", x |-> x]
          [] i3 = 61464 -> [op |-> "LDSV", x |-> x]
          [] i3 = 61470 -> [op |-> "ADDI", x |-> x]
          [] i3 = 61481 -> [op |-> "LDIS", x |-> x]
          [] i3 = 61491 -> [op |-> "LDD", x |-> x]
          [] i3 = 61525 -> [op |-> "LDVM", x |-> x]
          [] i3 = 61541 -> [op |-> "LDMV", x |-> x]
          [] OTHER -> None

\* decode, the innermost match: on i3 = ins & 0xF0FF
DecodeI3(ins, x) ==
    LET i3 == BitAnd(ins, 61695)
    IN  CASE i3 = 57502 -> [op |-> "SKP", x |-> x]
          [] i3 = 57505 -> [op |-> "SKNP", x |-> x]
          [] i3 = 61447 -> [op |-> "LDVD", x |-> x]
          [] i3 = 61450 -> [op |-> "LDK", x |-> x]
          [] i3 = 61461 -> [op |-> "LDDV", x |-> x]
          [] i3 = 61464 -> [op |-> "LDSV", x |-> x]
          [] i3 = 61470 -> [op |-> "ADDI", x |-> x]
          [] i3 = 61481 -> [op |-> "LDIS", x |-> x]
          [] i3 = 61491 -> [op |-> "LDD", x |-> x]
          [] i3 = 61525 -> [op |-> "LDMV", x |-> x]
          [] i3 = 61541 -> [op |-> "LDVM", x |-> x]
          [] OTHER -> None

\* decode, the middle match: on i2 = ins & 0xF00F
DecodeI2(ins, x, y) ==
    LET i2 == BitAnd(ins, 61455)
    IN  CASE i2 = 20480 -> [op |-> "SEV", x |-> x, y |-> y]
          [] i2 = 32768 -> [op |-> "LDV", x |-> x, y |-> y]
          [] i2 = 32769 -> [op |-> "OR", x |-> x, y |-> y]
          [] i2 = 32770 -> [op |-> "AND", x |-> x, y |-> y]
          [] i2 = 32771 -> [op |-> "XOR", x |-> x, y |-> y]
          [] i2 = 32772 -> [op |-> "ADDC", x |-> x, y |-> y]
          [] i2 = 32773 -> [op |-> "SUB", x |-> x, y |-> y]
          [] i2 = 32774 -> [op |-> "SHR", x |-> x, y |-> y]
          [] i2 = 32775 -> [op |-> "SUBN", x |-> x, y |-> y]
          [] i2 = 32782 -> [op |-> "SHL", x |-> x, y |-> y]
          [] i2 = 36864 -> [op |-> "SNEV", x |-> x, y |-> y]
          [] OTHER -> DecodeI3(ins, x)

\* Instruction::decode(ins): Some(instruction) as a record, None as None
Decode(ins) ==
    IF ins = 224 THEN [op |-> "CLS"]
    ELSE IF ins = 238 THEN [op |-> "RET"]
    ELSE
    LET i    == BitAnd(ins, 61440)
        addr == BitAnd(ins, 4095)
        x    == Shr(BitAnd(ins, 3840), 8)
        y    == Shr(BitAnd(ins, 240), 4)
        kk   == BitAnd(ins, 255)
    IN  CASE i = 0     -> None
          [] i = 4096  -> [op |-> "JP", addr |-> addr]
          [] i = 8192  -> [op |-> "CALL", addr |-> addr]
          [] i = 12288 -> [op |-> "SEB", x |-> x, kk |-> kk]
          [] i = 16384 -> [op |-> "SNEB", x |-> x, kk |-> kk]
          [] i = 24576 -> [op |-> "LDB", x |-> x, kk |-> kk]
          [] i = 28672 -> [op |-> "ADDB", x |-> x, kk |-> kk]
          [] i = 40960 -> [op |-> "LDI", addr |-> addr]
          [] i = 45056 -> [op |-> "JPV", addr |-> addr]
          [] i = 49152 -> [op |-> "RND", x |-> x, kk |-> kk]
          [] i = 53248 -> [op |-> "DRW", x |-> x, y |-> y, n |-> BitAnd(ins, 15)]
          [] OTHER -> DecodeI2(ins, x, y)

\* ---------------------------------------------------- Instruction::execute
\* c8 is the machine: a record of the fields of struct Chip8, with
\* panicked and overflow_checks.

\* a panic: the process aborts where it stands
Panic(c8) == [c8 EXCEPT !.panicked = TRUE]

\* Chip8::get_v: the index of the register VReg(n) names, clamped
GetV(n) == IF n < VLen THEN n ELSE VLen - 1

\* c8.pc += 2 on u16
PcAdd2(c8) ==
    IF c8.pc + 2 >= U16
    THEN IF c8.overflow_checks THEN Panic(c8) ELSE [c8 EXCEPT !.pc = (c8.pc + 2) % U16]
    ELSE [c8 EXCEPT !.pc = c8.pc + 2]

\* c8.i += d on u16
IAdd(c8, d) ==
    IF c8.i + d >= U16
    THEN IF c8.overflow_checks THEN Panic(c8) ELSE [c8 EXCEPT !.i = (c8.i + d) % U16]
    ELSE [c8 EXCEPT !.i = c8.i + d]

ExecCLS(c8) == [c8 EXCEPT !.screen = [r \in 0..(ScreenLen - 1) |-> {}]]

ExecRET(c8) ==
    LET sp == c8.sp
    IN  IF sp > 0
        THEN IF sp >= StkLen
             THEN Panic(c8)
             ELSE [c8 EXCEPT !.pc = c8.stk[sp], !.stk[sp] = 0, !.sp = sp - 1]
        ELSE c8

ExecJP(c8, addr) == IF addr < RamLen THEN [c8 EXCEPT !.pc = addr] ELSE c8

\* CALL pushing the address of the instruction after it
ExecCALLPushNext(c8, addr) ==
    LET sp == c8.sp
    IN  IF sp < StkLen
        THEN [c8 EXCEPT !.stk[sp] = c8.pc + 2, !.pc = addr, !.sp = sp + 1]
        ELSE c8

ExecCALL(c8, addr) ==
    LET sp == c8.sp
    IN  IF sp < StkLen
        THEN [c8 EXCEPT !.stk[sp] = c8.pc, !.pc = addr, !.sp = sp + 1]
        ELSE c8

ExecSEB(c8, x, kk) == IF c8.v[GetV(x)] = kk THEN PcAdd2(c8) ELSE c8

ExecSNEB(c8, x, kk) == IF c8.v[GetV(x)] # kk THEN PcAdd2(c8) ELSE c8

ExecSEV(c8, x, y) == IF c8.v[GetV(x)] = c8.v[GetV(y)] THEN PcAdd2(c8) ELSE c8

ExecLDB(c8, x, kk) == [c8 EXCEPT !.v[GetV(x)] = kk]

\* overflowing_add: the carry is dropped
ExecADDB(c8, x, kk) == [c8 EXCEPT !.v[GetV(x)] = (c8.v[GetV(x)] + kk) % U8]

ExecLDV(c8, x, y) == [c8 EXCEPT !.v[GetV(x)] = c8.v[GetV(y)]]

ExecOR(c8, x, y) == [c8 EXCEPT !.v[GetV(x)] = BitOr(c8.v[GetV(x)], c8.v[GetV(y)])]

ExecAND(c8, x, y) == [c8 EXCEPT !.v[GetV(x)] = BitAnd(c8.v[GetV(x)], c8.v[GetV(y)])]

ExecXOR(c8, x, y) == [c8 EXCEPT !.v[GetV(x)] = BitXor(c8.v[GetV(x)], c8.v[GetV(y)])]

\* v[x] is written first, v[15] after it
ExecADDC(c8, x, y) ==
    LET sum  == c8.v[GetV(x)] + c8.v[GetV(y)]
        flag == sum >= U8
        v1   == [c8.v EXCEPT ![GetV(x)] = sum % U8]
    IN  [c8 EXCEPT !.v = [v1 EXCEPT ![15] = IF flag THEN 1 ELSE 0]]

\* SUB with VF the borrow instead of its negation
ExecSUBBorrow(c8, x, y) ==
    LET a    == c8.v[GetV(x)]
        b    == c8.v[GetV(y)]
        flag == a < b
        v1   == [c8.v EXCEPT ![GetV(x)] = (a - b + U8) % U8]
    IN  [c8 EXCEPT !.v = [v1 EXCEPT ![15] = IF flag THEN 1 ELSE 0]]

ExecSUB(c8, x, y) ==
    LET a    == c8.v[GetV(x)]
        b    == c8.v[GetV(y)]
        flag == a < b
        v1   == [c8.v EXCEPT ![GetV(x)] = (a - b + U8) % U8]
    IN  [c8 EXCEPT !.v = [v1 EXCEPT ![15] = IF flag THEN 0 ELSE 1]]

\* v[15] is written first, and the second statement reads v[x] again
ExecSHR(c8, x, y) ==
    LET s  == IF c8.hp_shift THEN GetV(x) ELSE GetV(y)
        v1 == [c8.v EXCEPT ![15] = c8.v[s] % 2]
    IN  [c8 EXCEPT !.v = [v1 EXCEPT ![GetV(x)] = Shr(v1[s], 1)]]

ExecSUBN(c8, x, y) ==
    LET a    == c8.v[GetV(y)]
        b    == c8.v[GetV(x)]
        flag == a < b
        v1   == [c8.v EXCEPT ![GetV(x)] = (a - b + U8) % U8]
    IN  [c8 EXCEPT !.v = [v1 EXCEPT ![15] = IF flag THEN 0 ELSE 1]]

\* << 1 on u8 drops bit 7 without an overflow fault
ExecSHL(c8, x, y) ==
    LET s  == IF c8.hp_shift THEN GetV(x) ELSE GetV(y)
        v1 == [c8.v EXCEPT ![15] = Shr(c8.v[s], 7)]
    IN  [c8 EXCEPT !.v = [v1 EXCEPT ![GetV(x)] = (v1[s] * 2) % U8]]

\* SNEV skipping on equal registers
ExecSNEVEqual(c8, x, y) == IF c8.v[GetV(x)] = c8.v[GetV(y)] THEN PcAdd2(c8) ELSE c8

ExecSNEV(c8, x, y) == IF c8.v[GetV(x)] # c8.v[GetV(y)] THEN PcAdd2(c8) ELSE c8

ExecLDI(c8, addr) == IF addr < RamLen THEN [c8 EXCEPT !.i = addr] ELSE c8

\* addr.0 + c8.v[0] as u16: at most 0xFFF + 0xFF
ExecJPV(c8, addr) == [c8 EXCEPT !.pc = addr + c8.v[0]]

\* val is the byte the rng filled in
ExecRND(c8, x, kk, val) == [c8 EXCEPT !.v[GetV(x)] = BitAnd(val, kk)]

\* row ^= sprite << k or row ^= sprite >> k on u64: a shift by the width
\* or more panics with overflow checks and is taken modulo the width without
DrwRow(c8, cy, sprite, px) ==
    LET k == IF px > 56 THEN px - 56 ELSE 56 - px
    IN  IF k >= RowBits /\ c8.overflow_checks
        THEN Panic(c8)
        ELSE LET mask == IF px > 56
                         THEN RowShr(Bits(sprite), k % RowBits)
                         ELSE RowShl(Bits(sprite), k % RowBits)
             IN  [c8 EXCEPT !.screen[cy] = RowXor(c8.screen[cy], mask)]

RECURSIVE DrwLoop(_, _, _, _, _, _)
\* for r in 0..sz, from row r on
DrwLoop(c8, r, sz, i, px, py) ==
    IF r >= sz \/ c8.panicked THEN c8
    ELSE LET sprite == c8.ram[i + r]
             cy     == py + r
         IN  DrwLoop(IF cy < ScreenLen THEN DrwRow(c8, cy, sprite, px) ELSE c8,
                     r + 1, sz, i, px, py)

ExecDRW(c8, x, y, n) ==
    LET i  == c8.i
        sz == n
    IN  IF sz > 0 /\ i + sz <= RamLen
        THEN LET px == IF c8.wrap_tex THEN c8.v[GetV(x)] ELSE c8.v[GetV(x)] % 64
                 py == IF c8.wrap_tex THEN c8.v[GetV(y)] ELSE c8.v[GetV(y)] % 32
             IN  DrwLoop([c8 EXCEPT !.v[15] = 0], 0, sz, i, px, py)
        ELSE c8

ExecSKP(c8, x) == c8

ExecSKNP(c8, x) == PcAdd2(c8)

ExecLDVD(c8, x) == [c8 EXCEPT !.v[GetV(x)] = c8.dt]

\* unimplemented!()
ExecLDK(c8, x) == Panic(c8)

ExecLDDV(c8, x) == [c8 EXCEPT !.dt = c8.v[GetV(x)]]

ExecLDSV(c8, x) == [c8 EXCEPT !.st = c8.v[GetV(x)]]

ExecADDI(c8, x) == IAdd(c8, c8.v[GetV(x)])

\* the product is computed on u8, the sum on u16
ExecLDIS(c8, x) ==
    LET prod == c8.v[GetV(x)] * 5
    IN  IF prod >= U8 /\ c8.overflow_checks
        THEN Panic(c8)
        ELSE [c8 EXCEPT !.i = FontBase + (prod % U8)]

ExecLDD(c8, x) ==
    LET i == c8.i
    IN  IF i + 2 < RamLen
        THEN LET num == c8.v[GetV(x)]
             IN  [c8 EXCEPT !.ram[i] = num \div 100,
                            !.ram[i + 1] = (num \div 10) % 10,
                            !.ram[i + 2] = num % 10]
        ELSE c8

\* LDMV with the last register of the range left out
ExecLDMVExclusive(c8, x) ==
    LET i     == c8.i
        space == x
    IN  IF i + space < RamLen /\ space < VLen
        THEN LET c1 == [c8 EXCEPT !.ram = [a \in 0..(RamLen - 1) |->
                            IF a >= i /\ a < i + space THEN c8.v[a - i] ELSE c8.ram[a]]]
             IN  IF c8.mem_inc THEN IAdd(c1, x + 1) ELSE c1
        ELSE c8

ExecLDMV(c8, x) ==
    LET i     == c8.i
        space == x
    IN  IF i + space < RamLen /\ space < VLen
        THEN LET c1 == [c8 EXCEPT !.ram = [a \in 0..(RamLen - 1) |->
                            IF a >= i /\ a <= i + space THEN c8.v[a - i] ELSE c8.ram[a]]]
             IN  IF c8.mem_inc THEN IAdd(c1, x + 1) ELSE c1
        ELSE c8

\* LDVM refusing a range that ends at the last cell of memory
ExecLDVMShort(c8, x) ==
    LET i     == c8.i
        space == x
    IN  IF i + space + 1 < RamLen /\ space < VLen
        THEN LET c1 == [c8 EXCEPT !.v = [k \in 0..(VLen - 1) |->
                            IF k <= space THEN c8.ram[i + k] ELSE c8.v[k]]]
             IN  IF c8.mem_inc THEN IAdd(c1, x + 1) ELSE c1
        ELSE c8

ExecLDVM(c8, x) ==
    LET i     == c8.i
        space == x
    IN  IF i + space < RamLen /\ space < VLen
        THEN LET c1 == [c8 EXCEPT !.v = [k \in 0..(VLen - 1) |->
                            IF k <= space THEN c8.ram[i + k] ELSE c8.v[k]]]
             IN  IF c8.mem_inc THEN IAdd(c1, x + 1) ELSE c1
        ELSE c8

\* Instruction::execute(&self, c8); val is the byte the rng yields if asked
Execute(ins, c8, val) ==
    CASE ins.op = "CLS"  -> ExecCLS(c8)
      [] ins.op = "RET"  -> ExecRET(c8)
      [] ins.op = "JP"   -> ExecJP(c8, ins.addr)
      [] ins.op = "CALL" -> ExecCALL(c8, ins.addr)
      [] ins.op = "SEB"  -> ExecSEB(c8, ins.x, ins.kk)
      [] ins.op = "SNEB" -> ExecSNEB(c8, ins.x, ins.kk)
      [] ins.op = "SEV"  -> ExecSEV(c8, ins.x, ins.y)
      [] ins.op = "LDB"  -> ExecLDB(c8, ins.x, ins.kk)
      [] ins.op = "ADDB" -> ExecADDB(c8, ins.x, ins.kk)
      [] ins.op = "LDV"  -> ExecLDV(c8, ins.x, ins.y)
      [] ins.op = "OR"   -> ExecOR(c8, ins.x, ins.y)
      [] ins.op = "AND"  -> ExecAND(c8, ins.x, ins.y)
      [] ins.op = "XOR"  -> ExecXOR(c8, ins.x, ins.y)
      [] ins.op = "ADDC" -> ExecADDC(c8, ins.x, ins.y)
      [] ins.op = "SUB"  -> ExecSUB(c8, ins.x, ins.y)
      [] ins.op = "SHR"  -> ExecSHR(c8, ins.x, ins.y)
      [] ins.op = "SUBN" -> ExecSUBN(c8, ins.x, ins.y)
      [] ins.op = "SHL"  -> ExecSHL(c8, ins.x, ins.y)
      [] ins.op = "SNEV" -> ExecSNEV(c8, ins.x, ins.y)
      [] ins.op = "LDI"  -> ExecLDI(c8, ins.addr)
      [] ins.op = "JPV"  -> ExecJPV(c8, ins.addr)
      [] ins.op = "RND"  -> ExecRND(c8, ins.x, ins.kk, val)
      [] ins.op = "DRW"  -> ExecDRW(c8, ins.x, ins.y, ins.n)
      [] ins.op = "SKP"  -> ExecSKP(c8, ins.x)
      [] ins.op = "SKNP" -> ExecSKNP(c8, ins.x)
      [] ins.op = "LDVD" -> ExecLDVD(c8, ins.x)
      [] ins.op = "LDK"  -> ExecLDK(c8, ins.x)
      [] ins.op = "LDDV" -> ExecLDDV(c8, ins.x)
      [] ins.op = "LDSV" -> ExecLDSV(c8, ins.x)
      [] ins.op = "ADDI" -> ExecADDI(c8, ins.x)
      [] ins.op = "LDIS" -> ExecLDIS(c8, ins.x)
      [] ins.op = "LDD"  -> ExecLDD(c8, ins.x)
      [] ins.op = "LDMV" -> ExecLDMV(c8, ins.x)
      [] ins.op = "LDVM" -> ExecLDVM(c8, ins.x)

\* --------------------------------------------------------------- Chip8

\* no instruction word fetched (yet, or in a step that fetches nothing)
NotFetched == [op |-> "NotFetched"]

\* Chip8::new(int, rom, rng): int and rom are sequences of bytes
New(int, rom, checks) ==
    [wrap_tex |-> TRUE,
     hp_shift |-> TRUE,
     mem_inc |-> TRUE,
     last_dec |-> 0,
     v |-> [k \in 0..(VLen - 1) |-> 0],
     i |-> 0,
     dt |-> 0,
     st |-> 0,
     pc |-> RomBase,
     sp |-> 0,
     stk |-> [k \in 0..(StkLen - 1) |-> 0],
     ram |-> [a \in 0..(RamLen - 1) |->
                IF a < RomBase
                THEN IF a < Len(int) THEN int[a + 1] ELSE 0
                ELSE IF a - RomBase < Len(rom) THEN rom[a - RomBase + 1] ELSE 0],
     screen |-> [r \in 0..(ScreenLen - 1) |-> {}],
     panicked |-> FALSE,
     overflow_checks |-> checks]

\* (elapsed.as_secs_f64() * 60.0).max(255.0) as u8, elapsed in milliseconds:
\* the f64 is held in thousandths of a tick, and as u8 truncates and saturates
Steps(elapsed) ==
    LET ticks   == elapsed * 60
        clamped == IF ticks > 255 * 1000 THEN ticks ELSE 255 * 1000
        whole   == clamped \div 1000
    IN  IF whole > 255 THEN 255 ELSE whole

\* the timer phase with the subtraction unguarded: it wraps on u8
TimerPhaseWrapping(c8, d) ==
    LET elapsed == c8.last_dec + d
        steps   == Steps(elapsed)
    IN  IF steps > 0
        THEN [c8 EXCEPT !.last_dec = 0,
                        !.dt = (c8.dt - steps + U8) % U8,
                        !.st = (c8.st - steps + U8) % U8]
        ELSE [c8 EXCEPT !.last_dec = elapsed]

\* step, lines 376-382: d is the time that passed since the previous sample
TimerPhase(c8, d) ==
    LET elapsed == c8.last_dec + d
        steps   == Steps(elapsed)
    IN  IF steps > 0
        THEN [c8 EXCEPT !.last_dec = 0,
                        !.dt = IF steps > c8.dt THEN 0 ELSE c8.dt - steps,
                        !.st = IF steps > c8.st THEN 0 ELSE c8.st - steps]
        ELSE [c8 EXCEPT !.last_dec = elapsed]

\* idx + 1 < self.ram.len()
CanFetch(c8) == c8.pc + 1 < RamLen

\* ((self.ram[idx] as u16) << 8) | self.ram[idx + 1] as u16
Fetch(c8) == BitOr(c8.ram[c8.pc] * 256, c8.ram[c8.pc + 1])

\* fetch, decode, execute with the program counter wrapped into memory when
\* it is out of bounds
FetchExecuteWrapping(c8, rnd) ==
    IF CanFetch(c8)
    THEN LET ins == Decode(Fetch(c8))
             c1  == IF ins.op # "None" THEN Execute(ins, c8, rnd) ELSE c8
         IN  IF c1.panicked THEN c1 ELSE PcAdd2(c1)
    ELSE [c8 EXCEPT !.pc = c8.pc % RamLen]

\* fetch, decode, execute with the advance left out for an unrecognized word
FetchExecuteStuck(c8, rnd) ==
    IF CanFetch(c8)
    THEN LET ins == Decode(Fetch(c8))
         IN  IF ins.op # "None"
             THEN LET c1 == Execute(ins, c8, rnd)
                  IN  IF c1.panicked THEN c1 ELSE PcAdd2(c1)
             ELSE c8
    ELSE c8

\* step, lines 383-392: fetch, decode, execute, advance
FetchExecute(c8, rnd) ==
    IF CanFetch(c8)
    THEN LET ins == Decode(Fetch(c8))
             c1  == IF ins.op # "None" THEN Execute(ins, c8, rnd) ELSE c8
         IN  IF c1.panicked THEN c1 ELSE PcAdd2(c1)
    ELSE c8

\* Chip8::step(&mut self)
Chip8Step(c8, d, rnd) == FetchExecute(TimerPhase(c8, d), rnd)

\* ------------------------------------------------------------- the state

VARIABLES
    wrap_tex, hp_shift, mem_inc,   \* the three quirk fields
    last_dec,                      \* age of the instant last_dec, in ms
    v, i, dt, st, pc, sp, stk, ram, screen,
    panicked,                      \* the process has aborted
    overflow_checks,               \* the build panics on arithmetic overflow
    elapsed,                       \* step's now.duration_since(last_dec), ms
    val, ins,                      \* step's locals: the word fetched, decoded
    step_result,                   \* what the latest step returned to its caller
    calls,                         \* history: the CALLs that pushed and were
                                   \* not yet returned from, innermost first
    dump                           \* history: the latest LDMV that stored, if
                                   \* memory was not written since

vars == <<wrap_tex, hp_shift, mem_inc, last_dec, v, i, dt, st, pc, sp, stk, ram,
          screen, panicked, overflow_checks, elapsed, val, ins, step_result, calls,
          dump>>

\* the machine the variables hold
C8 ==
    [wrap_tex |-> wrap_tex, hp_shift |-> hp_shift, mem_inc |-> mem_inc,
     last_dec |-> last_dec, v |-> v, i |-> i, dt |-> dt, st |-> st, pc |-> pc,
     sp |-> sp, stk |-> stk, ram |-> ram, screen |-> screen,
     panicked |-> panicked, overflow_checks |-> overflow_checks]

\* the variables hold machine n
Holds(n) ==
    /\ wrap_tex = n.wrap_tex /\ hp_shift = n.hp_shift /\ mem_inc = n.mem_inc
    /\ last_dec = n.last_dec /\ v = n.v /\ i = n.i /\ dt = n.dt /\ st = n.st
    /\ pc = n.pc /\ sp = n.sp /\ stk = n.stk /\ ram = n.ram /\ screen = n.screen
    /\ panicked = n.panicked /\ overflow_checks = n.overflow_checks

\* the variables hold machine n after the step
Becomes(n) ==
    /\ wrap_tex' = n.wrap_tex /\ hp_shift' = n.hp_shift /\ mem_inc' = n.mem_inc
    /\ last_dec' = n.last_dec /\ v' = n.v /\ i' = n.i /\ dt' = n.dt /\ st' = n.st
    /\ pc' = n.pc /\ sp' = n.sp /\ stk' = n.stk /\ ram' = n.ram /\ screen' = n.screen
    /\ panicked' = n.panicked /\ overflow_checks' = n.overflow_checks

\* -------------------------------------------------------- program images

\* the instruction word of an instruction, by the encoding patterns decode
\* matches: the assembler the program images below are written with
Encode(n) ==
    CASE n.op = "CLS"  -> 224
      [] n.op = "RET"  -> 238
      [] n.op = "SYS"  -> n.addr
      [] n.op = "JP"   -> 1 * 4096 + n.addr
      [] n.op = "CALL" -> 2 * 4096 + n.addr
      [] n.op = "SEB"  -> 3 * 4096 + n.x * 256 + n.kk
      [] n.op = "SNEB" -> 4 * 4096 + n.x * 256 + n.kk
      [] n.op = "SEV"  -> 5 * 4096 + n.x * 256 + n.y * 16
      [] n.op = "LDB"  -> 6 * 4096 + n.x * 256 + n.kk
      [] n.op = "ADDB" -> 7 * 4096 + n.x * 256 + n.kk
      [] n.op = "LDV"  -> 8 * 4096 + n.x * 256 + n.y * 16
      [] n.op = "OR"   -> 8 * 4096 + n.x * 256 + n.y * 16 + 1
      [] n.op = "AND"  -> 8 * 4096 + n.x * 256 + n.y * 16 + 2
      [] n.op = "XOR"  -> 8 * 4096 + n.x * 256 + n.y * 16 + 3
      [] n.op = "ADDC" -> 8 * 4096 + n.x * 256 + n.y * 16 + 4
      [] n.op = "SUB"  -> 8 * 4096 + n.x * 256 + n.y * 16 + 5
      [] n.op = "SHR"  -> 8 * 4096 + n.x * 256 + n.y * 16 + 6
      [] n.op = "SUBN" -> 8 * 4096 + n.x * 256 + n.y * 16 + 7
      [] n.op = "SHL"  -> 8 * 4096 + n.x * 256 + n.y * 16 + 14
      [] n.op = "SNEV" -> 9 * 4096 + n.x * 256 + n.y * 16
      [] n.op = "LDI"  -> 10 * 4096 + n.addr
      [] n.op = "JPV"  -> 11 * 4096 + n.addr
      [] n.op = "RND"  -> 12 * 4096 + n.x * 256 + n.kk
      [] n.op = "DRW"  -> 13 * 4096 + n.x * 256 + n.y * 16 + n.n
      [] n.op = "SKP"  -> 14 * 4096 + n.x * 256 + 158
      [] n.op = "SKNP" -> 14 * 4096 + n.x * 256 + 161
      [] n.op = "LDVD" -> 15 * 4096 + n.x * 256 + 7
      [] n.op = "LDK"  -> 15 * 4096 + n.x * 256 + 10
      [] n.op = "LDDV" -> 15 * 4096 + n.x * 256 + 21
      [] n.op = "LDSV" -> 15 * 4096 + n.x * 256 + 24
      [] n.op = "ADDI" -> 15 * 4096 + n.x * 256 + 30
      [] n.op = "LDIS" -> 15 * 4096 + n.x * 256 + 41
      [] n.op = "LDD"  -> 15 * 4096 + n.x * 256 + 51
      [] n.op = "LDMV" -> 15 * 4096 + n.x * 256 + 85
      [] n.op = "LDVM" -> 15 * 4096 + n.x * 256 + 101

\* instructions by the shape of their operands
Op(op) == [op |-> op]
OpA(op, addr) == [op |-> op, addr |-> addr]
OpX(op, x) == [op |-> op, x |-> x]
OpXK(op, x, kk) == [op |-> op, x |-> x, kk |-> kk]
OpXY(op, x, y) == [op |-> op, x |-> x, y |-> y]
OpXYN(op, x, y, n) == [op |-> op, x |-> x, y |-> y, n |-> n]

\* the bytes of a sequence of instructions, each word big-endian
RECURSIVE Image(_)
Image(prog) ==
    IF prog = <<>> THEN <<>>
    ELSE LET w == Encode(Head(prog))
         IN  <<w \div 256, w % 256>> \o Image(Tail(prog))

\* the address of the k-th instruction (from 0) of the program image
At(k) == RomBase + 2 * k

\* the last instruction word of memory: execution runs off the end behind it
LastWord == RamLen - 2

\* a jump behind which the machine fetches nothing more
Halt == OpA("JP", LastWord)

\* interpreter images (memory below RomBase): an unrecognized word at 0, then
\* a halt at 2; the second one holds a RET in between
IntHalt == Image(<<OpA("SYS", 0), Halt>>)
IntRet == Image(<<OpA("SYS", 0), Op("RET"), Halt>>)

\* ------------------------------------------------------------- the bounds

\* the longest chain of CALLs a program image makes, one past the stack
MaxCalls == 17
\* the deepest nesting of subroutines a program image is laid out for
MaxDepth == 3

\* the durations, in ms, that may pass between two samples of the clock:
\* no tick, less than a tick, two ticks, more ticks than a u8 holds
Delays == {0, 10, 40, 5000}

\* the bytes the rng may yield
RndBytes == {0, 165, 255}

\* ------------------------------------------------------ stack programs

\* m CALLs, each to its own address, then two RETs
Chain(m) ==
    [k \in 1..m |-> OpA("CALL", At(k - 1))] \o <<Op("RET"), Op("RET"), Halt>>

\* n subroutines nested in one another: subroutine k is the two words at
\* At(2 * k), a CALL of subroutine k + 1 and a RET; the innermost is two RETs
Nested(n) ==
    [k \in 1..(2 * n + 2) |->
        IF k > 2 * n THEN Op("RET")
        ELSE IF k % 2 = 1 THEN OpA("CALL", At(k + 1))
        ELSE IF k = 2 THEN Halt
        ELSE Op("RET")]

\* ------------------------------------------------------------ the actions

\* the machine right after construction from one of the images, each an
\* interpreter image with a program, in a build with or without overflow checks
InitWith(images) ==
    /\ \E im \in images, checks \in BOOLEAN :
           Holds(New(im.int, Image(im.prog), checks))
    /\ elapsed = 0
    /\ val = 0
    /\ ins = NotFetched
    /\ step_result = "none"
    /\ calls = <<>>
    /\ dump = <<>>

\* the history of CALLs after the step from c8 to n that fetched op: a CALL
\* that moved the stack pointer is entered, a RET leaves the innermost CALL
CallHistory(op, c8, n, h) ==
    IF op = "CALL" /\ n.sp # c8.sp
    THEN <<[at |-> c8.pc, sp |-> c8.sp]>> \o h
    ELSE IF op = "RET" /\ h # <<>> THEN Tail(h)
    ELSE h

\* the history of LDMV after the step from c8 to n that fetched fetched: an
\* LDMV whose range is in bounds is recorded with the registers and the index
\* register it found and the index register it left; the other instruction
\* that writes memory, LDD, forgets it
DumpHistory(fetched, c8, n, h) ==
    IF fetched.op = "LDMV" /\ c8.i + fetched.x < RamLen
    THEN <<[at |-> c8.i, x |-> fetched.x, v |-> c8.v, after |-> n.i]>>
    ELSE IF fetched.op = "LDD" THEN <<>>
    ELSE h

\* one call of Chip8::step by the driver loop: d is the time since the
\* previous call sampled the clock, rnd the byte the rng yields (asked by RND
\* only)
Step ==
    /\ ~panicked
    /\ \E c8 \in {C8} :
       \E word \in {IF CanFetch(c8) THEN Fetch(c8) ELSE 0} :
       \E fetched \in {IF CanFetch(c8) THEN Decode(word) ELSE NotFetched} :
       \E d \in Delays :
       \E rnd \in (IF fetched.op = "RND" THEN RndBytes ELSE {0}) :
       \E n \in {Chip8Step(c8, d, rnd)} :
           /\ Becomes(n)
           /\ elapsed' = last_dec + d
           /\ val' = word
           /\ ins' = fetched
           /\ step_result' = "unit"
           /\ calls' = CallHistory(fetched.op, c8, n, calls)
           /\ dump' = DumpHistory(fetched, c8, n, dump)

Next == Step

StackImages ==
    {[int |-> IntHalt, prog |-> Chain(m)] : m \in 0..MaxCalls}
    \cup {[int |-> IntRet, prog |-> Chain(m)] : m \in 0..MaxDepth}
    \cup {[int |-> IntHalt, prog |-> Nested(n)] : n \in 1..MaxDepth}

\* programs that end in an instruction the machine may not survive: LDK; a
\* DRW at column 120; LDIS of digit 52, and of digit 51 which it survives
FaultImages ==
    {[int |-> IntHalt, prog |-> p] : p \in
        {<<OpX("LDK", 0), Halt>>,
         <<OpXK("LDB", 0, 120), OpXYN("DRW", 0, 1, 1), Halt>>,
         <<OpXK("LDB", 3, 52), OpX("LDIS", 3), Halt>>,
         <<OpXK("LDB", 3, 51), OpX("LDIS", 3), Halt>>}}

Init == InitWith(StackImages \cup FaultImages)

\* the machine running the stack programs and the fault programs
Spec == Init /\ [][Next]_vars

\* ------------------------------------------------------- timer programs

\* the largest of the small values the timer programs load (255 besides)
MaxTimer == 3

\* set both timers to k, read the delay timer back, and idle
TimerProg(k) ==
    <<OpXK("LDB", 0, k), OpX("LDDV", 0), OpX("LDSV", 0), OpX("LDVD", 1),
      OpA("SYS", 0), Halt>>

TimerImages ==
    {[int |-> IntHalt, prog |-> TimerProg(k)] : k \in (0..MaxTimer) \cup {255}}

InitTimer == InitWith(TimerImages)

\* the machine running the timer programs
SpecTimer == InitTimer /\ [][Next]_vars

\* ------------------------------------------------ register dump programs

\* the number of register contents the dump programs try
MaxPattern == 2

\* the content of register j in pattern p: never zero
RegValue(p, j) == ((85 * p + 19 * j) % 255) + 1

\* load V0..Vk with pattern p, store them at a, zero every register, set the
\* index register back to a (or not), load V0..Vk
RoundTrip(k, p, a, back) ==
    [j \in 1..(k + 1) |-> OpXK("LDB", j - 1, RegValue(p, j - 1))]
    \o <<OpA("LDI", a), OpX("LDMV", k)>>
    \o [j \in 1..VLen |-> OpXK("LDB", j - 1, 0)]
    \o (IF back THEN <<OpA("LDI", a)>> ELSE <<>>)
    \o <<OpX("LDVM", k), Halt>>

\* a is in the middle of memory, or such that the range ends at the last cell
DumpImages ==
    {[int |-> IntHalt, prog |-> RoundTrip(k, p, a, back)] :
        k \in 0..(VLen - 1), p \in 1..MaxPattern, a \in {768}, back \in BOOLEAN}
    \cup {[int |-> IntHalt, prog |-> RoundTrip(k, 1, RamLen - 1 - k, back)] :
        k \in 0..(VLen - 1), back \in BOOLEAN}

InitDump == InitWith(DumpImages)

\* the machine running the register dump programs
SpecDump == InitDump /\ [][Next]_vars

\* -------------------------------------------------------- draw programs

\* the most rows of a sprite the draw programs draw
MaxRows == 2

\* the sprite bytes, columns and rows the draw programs use
SpriteBytes == {255, 129, 0}
Columns == {0, 4, 56, 60}
Rows == {0, 31}

\* store a sprite of n rows of byte b at a, then draw it twice at (x, y)
DrawTwice(b, n, a, x, y) ==
    [j \in 1..n |-> OpXK("LDB", j - 1, b)]
    \o <<OpA("LDI", a), OpX("LDMV", n - 1), OpA("LDI", a),
         OpXK("LDB", 10, x), OpXK("LDB", 11, y),
         OpXYN("DRW", 10, 11, n), OpXYN("DRW", 10, 11, n), Halt>>

DrawImages ==
    {[int |-> IntHalt, prog |-> DrawTwice(b, n, 768, x, y)] :
        b \in SpriteBytes, n \in 1..MaxRows, x \in Columns, y \in Rows}

InitDraw == InitWith(DrawImages)

\* the machine running the draw programs
SpecDraw == InitDraw /\ [][Next]_vars

\* -------------------------------------------------- arithmetic programs

\* the register values, and the pairs of registers x, y, of the arithmetic
\* programs
ArithBytes == {0, 1, 3, 5, 128, 255}
ArithRegs == {<<0, 1>>, <<2, 2>>, <<14, 15>>}

\* load Vx with a and Vy with b, then ADDC, SUB or SUBN Vx, Vy
ArithProg(op, x, y, a, b) ==
    <<OpXK("LDB", x, a), OpXK("LDB", y, b), OpXY(op, x, y), Halt>>

\* load VF with 7 and Vx with a, then ADDB Vx, kk
AddbProg(x, a, kk) ==
    <<OpXK("LDB", 15, 7), OpXK("LDB", x, a), OpXK("ADDB", x, kk), Halt>>

ArithImages ==
    {[int |-> IntHalt, prog |-> ArithProg(op, r[1], r[2], a, b)] :
        op \in {"ADDC", "SUB", "SUBN"}, r \in ArithRegs,
        a \in ArithBytes, b \in ArithBytes}
    \cup {[int |-> IntHalt, prog |-> AddbProg(x, a, kk)] :
        x \in {0, 14}, a \in ArithBytes, kk \in ArithBytes}

InitArith == InitWith(ArithImages)

\* the machine running the arithmetic programs
SpecArith == InitArith /\ [][Next]_vars

\* ------------------------------------------------------- shift programs

\* the register values, and the pairs of registers x, y, of the shift programs
ShiftBytes == {0, 1, 128, 129, 255}
ShiftRegs == {<<0, 1>>, <<3, 15>>, <<15, 0>>, <<15, 15>>}

\* load Vx with a and Vy with b, then SHR or SHL Vx, Vy
ShiftProg(op, x, y, a, b) ==
    <<OpXK("LDB", x, a), OpXK("LDB", y, b), OpXY(op, x, y), Halt>>

ShiftImages ==
    {[int |-> IntHalt, prog |-> ShiftProg(op, r[1], r[2], a, b)] :
        op \in {"SHR", "SHL"}, r \in ShiftRegs,
        a \in ShiftBytes, b \in ShiftBytes}

InitShift == InitWith(ShiftImages)

\* the machine running the shift programs
SpecShift == InitShift /\ [][Next]_vars

\* -------------------------------------------------- unrecognized words

\* the word w itself, as data (the assembler encodes SYS by its operand)
Raw(w) == OpA("SYS", w)

\* words no pattern of decode matches: 0x0000, 0x0123, 0x5011, 0x8AB8,
\* 0x9AB1, 0xE000, 0xE19F, 0xF000, 0xFFFF
UnknownWords == {0, 291, 20497, 35512, 39601, 57344, 57759, 61440, 65535}

\* a subroutine entered, registers and the index register loaded, a sprite
\* drawn, then the word w
UnknownProg(w) ==
    <<OpA("CALL", At(0)), OpXK("LDB", 1, 9), OpXK("LDB", 15, 1),
      OpA("LDI", 2), OpXYN("DRW", 0, 0, 2), OpA("LDI", 777), Raw(w), Halt>>

UnknownImages == {[int |-> IntHalt, prog |-> UnknownProg(w)] : w \in UnknownWords}

InitUnknown == InitWith(UnknownImages)

\* the machine running the programs with an unrecognized word
SpecUnknown == InitUnknown /\ [][Next]_vars

\* ------------------------------------------------- end-of-memory programs

\* the jump targets next to the end of memory, and the offsets V0 adds to them
EndTargets == {RamLen - 5, RamLen - 4, RamLen - 3, RamLen - 2, RamLen - 1}
EndOffsets == {0, 1, 2, 255}

\* load V0 with k, set the timers, then JP a or JPV a
EndProg(op, a, k) ==
    <<OpXK("LDB", 0, k), OpX("LDDV", 0), OpA("LDI", 777), OpA(op, a)>>

EndImages ==
    {[int |-> IntHalt, prog |-> EndProg("JP", a, 1)] : a \in EndTargets}
    \cup {[int |-> IntHalt, prog |-> EndProg("JPV", a, k)] :
            a \in EndTargets, k \in EndOffsets}

InitEnd == InitWith(EndImages)

\* the machine running the programs that jump to the end of memory
SpecEnd == InitEnd /\ [][Next]_vars

\* --------------------------------------------------------- skip programs

\* the register values and operand bytes, and the pairs of registers x, y, of
\* the skip programs
SkipBytes == {0, 7, 255}
SkipRegs == {<<0, 1>>, <<2, 2>>, <<14, 15>>}

\* load Vx with a, then SEB or SNEB Vx, kk
SkipByteProg(op, x, a, kk) ==
    <<OpXK("LDB", x, a), OpXK(op, x, kk), Halt, Halt>>

\* load Vx with a and Vy with b, then SEV or SNEV Vx, Vy
SkipRegProg(op, x, y, a, b) ==
    <<OpXK("LDB", x, a), OpXK("LDB", y, b), OpXY(op, x, y), Halt, Halt>>

SkipImages ==
    {[int |-> IntHalt, prog |-> SkipByteProg(op, x, a, kk)] :
        op \in {"SEB", "SNEB"}, x \in {0, 15}, a \in SkipBytes, kk \in SkipBytes}
    \cup {[int |-> IntHalt, prog |-> SkipRegProg(op, r[1], r[2], a, b)] :
        op \in {"SEV", "SNEV"}, r \in SkipRegs, a \in SkipBytes, b \in SkipBytes}

InitSkip == InitWith(SkipImages)

\* the machine running the skip programs
SpecSkip == InitSkip /\ [][Next]_vars

\* -------------------------------------------------------- range programs

\* the last registers of the ranges the range programs copy
RangeEnds == {0, 1, 7, 15}

\* the addresses a range of k + 1 cells is copied at: the start of memory,
\* the last place it fits, and one cell further
RangeStarts(k) == {0, RamLen - 1 - k, RamLen - k}

\* load V0..Vk, then first and second (LDMV and LDVM in either order), each
\* with the index register at a
RangeProg(k, a, first, second) ==
    [j \in 1..(k + 1) |-> OpXK("LDB", j - 1, RegValue(1, j - 1))]
    \o <<OpA("LDI", a), OpX(first, k), OpA("LDI", a), OpX(second, k), Halt>>

\* LDMV and LDVM with the index register at 0xFFF + 0xFF, past memory
RangePastProg(k, op) ==
    <<OpXK("LDB", 0, 255), OpA("LDI", RamLen - 1), OpX("ADDI", 0), OpX(op, k), Halt>>

RangeImages ==
    UNION {{[int |-> IntHalt, prog |-> RangeProg(k, a, "LDMV", "LDVM")] :
                a \in RangeStarts(k)} : k \in RangeEnds}
    \cup UNION {{[int |-> IntHalt, prog |-> RangeProg(k, a, "LDVM", "LDMV")] :
                a \in RangeStarts(k)} : k \in RangeEnds}
    \cup {[int |-> IntHalt, prog |-> RangePastProg(k, op)] :
        k \in RangeEnds, op \in {"LDMV", "LDVM"}}

InitRange == InitWith(RangeImages)

\* the machine running the range programs
SpecRange == InitRange /\ [][Next]_vars

\* ------------------------------------------------- wide-column programs

\* the columns the wide-column programs draw at, from the last eight of the
\* display to the largest register value
WideColumns == {57, 63, 64, 119, 120, 127, 255}

WideImages ==
    {[int |-> IntHalt, prog |-> DrawTwice(b, 1, 768, x, y)] :
        b \in {255, 129}, x \in WideColumns, y \in {0, 30}}

InitWide == InitWith(WideImages)

\* the machine running the wide-column programs
SpecWide == InitWide /\ [][Next]_vars

\* ---------------------------------------------- program-counter programs

\* store the instruction n in the last word of memory and run it: JP to the
\* word before it, which is empty
AtLastWord(n) ==
    <<OpXK("LDB", 0, Encode(n) \div 256), OpXK("LDB", 1, Encode(n) % 256),
      OpA("LDI", LastWord), OpX("LDMV", 1), OpA("JP", LastWord - 2)>>

\* the instructions run in the last word: the jumps and the call to the
\* highest address, the skips taken and not taken, a return
LastWordInstructions ==
    {OpA("JP", RamLen - 1), OpA("CALL", RamLen - 1), OpA("JPV", RamLen - 1),
     OpXK("SEB", 0, 0), OpXK("SNEB", 0, 0), OpXY("SEV", 1, 1), OpXY("SNEV", 1, 1),
     Op("RET")}

\* a call, then JPV to the highest address with the largest offset in V0
CallThenJpv(k) ==
    <<OpA("CALL", At(0)), OpXK("LDB", 0, k), OpA("JPV", RamLen - 1)>>

PcImages ==
    {[int |-> IntHalt, prog |-> AtLastWord(n)] : n \in LastWordInstructions}
    \cup {[int |-> IntHalt, prog |-> CallThenJpv(k)] : k \in {0, 254, 255}}

InitPc == InitWith(PcImages)

\* the machine running the program-counter programs
SpecPc == InitPc /\ [][Next]_vars

\* ------------------------------------------------ index-register programs

\* the number of rounds of the longest ADDI loop: with V0 = 255 from
\* I = 0xFFF, the last round takes I + V0 past 0xFFFF
MaxAddi == 241

\* the digits the index-register programs ask the font sprite of
Digits == {0, 15, 51, 52, 255}

\* I = 0xFFF, V0 = 255, then n rounds of ADDI V0, counted down in V1 (the JP
\* lands one word behind its operand)
AddiLoop(n) ==
    <<OpA("LDI", RamLen - 1), OpXK("LDB", 0, 255), OpXK("LDB", 1, n),
      OpX("ADDI", 0), OpXK("ADDB", 1, 255), OpXK("SEB", 1, 0),
      OpA("JP", At(2)), Halt>>

\* LDIS of the digit d
FontProg(d) == <<OpXK("LDB", 3, d), OpX("LDIS", 3), Halt>>

IndexImages ==
    {[int |-> IntHalt, prog |-> AddiLoop(n)] : n \in {1, MaxAddi}}
    \cup {[int |-> IntHalt, prog |-> FontProg(d)] : d \in Digits}
    \cup {[int |-> IntHalt, prog |-> RangeProg(15, RamLen - VLen, "LDMV", "LDVM")]}

InitIndex == InitWith(IndexImages)

\* the machine running the index-register programs
SpecIndex == InitIndex /\ [][Next]_vars

\* ------------------------------------------------------- decode on its own

\* any 16-bit word is handed to decode
InitDecode ==
    /\ Holds(New(<<>>, <<>>, FALSE))
    /\ elapsed = 0
    /\ val \in 0..(U16 - 1)
    /\ ins = NotFetched
    /\ step_result = "none"
    /\ calls = <<>>
    /\ dump = <<>>

\* Instruction::decode(&val)
DecodeWord ==
    /\ ins = NotFetched
    /\ ins' = Decode(val)
    /\ UNCHANGED <<wrap_tex, hp_shift, mem_inc, last_dec, v, i, dt, st, pc, sp,
                   stk, ram, screen, panicked, overflow_checks, elapsed, val,
                   step_result, calls, dump>>

NextDecode == DecodeWord

\* decode applied to every 16-bit word
SpecDecode == InitDecode /\ [][NextDecode]_vars

\* ------------------------------------------------------------ the claims

\* C1: no step aborts the process: every fault stays local to the one
\* instruction (LDK, RET, DRW, LDIS included, in every build).
NoStepAborts == ~panicked

\* C2: stack balance: a RET that matches a CALL returns to the address that
\* CALL pushed, so the step ends at the CALL's address plus the 2-byte advance
\* with the stack pointer the CALL started from.
StackBalance ==
    [][(ins'.op = "RET" /\ calls # <<>>)
         => (pc' = Head(calls).at + 2 /\ sp' = Head(calls).sp)]_vars

\* C3: the stack pointer stays within 0..15, and no CALL or RET crashes.
StackPointerInRange ==
    /\ sp \in 0..(StkLen - 1)
    /\ ins.op \in {"CALL", "RET"} => ~panicked

\* C4: a CALL at a full stack leaves the stack, the stack pointer and the
\* program counter unchanged and reports StackOverflow to the caller.
CallAtFullStackReported ==
    [][(ins'.op = "CALL" /\ sp = StkLen)
         => (stk' = stk /\ sp' = sp /\ pc' = pc /\ step_result' = "StackOverflow")]_vars

\* C5: jumps, calls and returns bypass the +2 advance: the step ends at addr
\* (JP, a CALL that pushed), at addr + V0 (JPV), at the address RET took from
\* the stack (a RET that popped).
JumpsBypassAdvance ==
    [][/\ ins'.op = "JP" => pc' = ins'.addr
       /\ (ins'.op = "CALL" /\ sp' = sp + 1) => pc' = ins'.addr
       /\ ins'.op = "JPV" => pc' = ins'.addr + v[0]
       /\ (ins'.op = "RET" /\ sp' = sp - 1) => pc' = stk[sp]]_vars

\* the instruction table of the specification, by the nibbles of the word:
\* x = bits 8-11, y = bits 4-7, kk = bits 0-7, addr = bits 0-11, n = bits 0-3
TableDecode(w) ==
    LET top  == w \div 4096
        x    == (w \div 256) % 16
        y    == (w \div 16) % 16
        n    == w % 16
        kk   == w % 256
        addr == w % 4096
    IN  CASE w = 224 -> [op |-> "CLS"]
          [] w = 238 -> [op |-> "RET"]
          [] top = 1 -> [op |-> "JP", addr |-> addr]
          [] top = 2 -> [op |-> "CALL", addr |-> addr]
          [] top = 3 -> [op |-> "SEB", x |-> x, kk |-> kk]
          [] top = 4 -> [op |-> "SNEB", x |-> x, kk |-> kk]
          [] top = 5 /\ n = 0 -> [op |-> "SEV", x |-> x, y |-> y]
          [] top = 6 -> [op |-> "LDB", x |-> x, kk |-> kk]
          [] top = 7 -> [op |-> "ADDB", x |-> x, kk |-> kk]
          [] top = 8 /\ n = 0 -> [op |-> "LDV", x |-> x, y |-> y]
          [] top = 8 /\ n = 1 -> [op |-> "OR", x |-> x, y |-> y]
          [] top = 8 /\ n = 2 -> [op |-> "AND", x |-> x, y |-> y]
          [] top = 8 /\ n = 3 -> [op |-> "XOR", x |-> x, y |-> y]
          [] top = 8 /\ n = 4 -> [op |-> "ADDC", x |-> x, y |-> y]
          [] top = 8 /\ n = 5 -> [op |-> "SUB", x |-> x, y |-> y]
          [] top = 8 /\ n = 6 -> [op |-> "SHR", x |-> x, y |-> y]
          [] top = 8 /\ n = 7 -> [op |-> "SUBN", x |-> x, y |-> y]
          [] top = 8 /\ n = 14 -> [op |-> "SHL", x |-> x, y |-> y]
          [] top = 9 /\ n = 0 -> [op |-> "SNEV", x |-> x, y |-> y]
          [] top = 10 -> [op |-> "LDI", addr |-> addr]
          [] top = 11 -> [op |-> "JPV", addr |-> addr]
          [] top = 12 -> [op |-> "RND", x |-> x, kk |-> kk]
          [] top = 13 -> [op |-> "DRW", x |-> x, y |-> y, n |-> n]
          [] top = 14 /\ kk = 158 -> [op |-> "SKP", x |-> x]
          [] top = 14 /\ kk = 161 -> [op |-> "SKNP", x |-> x]
          [] top = 15 /\ kk = 7 -> [op |-> "LDVD", x |-> x]
          [] top = 15 /\ kk = 10 -> [op |-> "LDK", x |-> x]
          [] top = 15 /\ kk = 21 -> [op |-> "LDDV", x |-> x]
          [] top = 15 /\ kk = 24 -> [op |-> "LDSV", x |-> x]
          [] top = 15 /\ kk = 30 -> [op |-> "ADDI", x |-> x]
          [] top = 15 /\ kk = 41 -> [op |-> "LDIS", x |-> x]
          [] top = 15 /\ kk = 51 -> [op |-> "LDD", x |-> x]
          [] top = 15 /\ kk = 85 -> [op |-> "LDMV", x |-> x]
          [] top = 15 /\ kk = 101 -> [op |-> "LDVM", x |-> x]
          [] OTHER -> [op |-> "None"]

\* C6: decode is total over the 16-bit words and decodes each to the
\* mnemonic and operands of the instruction table, and every word matching
\* no pattern to Unrecognized.
DecodeMatchesTable == ins # NotFetched => ins = TableDecode(val)

\* decode has run on a word of the table (0x6A05), on an unrecognized word of
\* a known family (0x8AB8) or on the last word with LDVM's pattern (0xFF65)
DecodeWitness ==
    \/ val = 27141 /\ ins = [op |-> "LDB", x |-> 10, kk |-> 5]
    \/ val = 35512 /\ ins = None
    \/ val = 65381 /\ ins = [op |-> "LDVM", x |-> 15]

\* the whole number of 60 Hz ticks in a duration of ms milliseconds
WholeTicks(ms) == (ms * 60) \div 1000

\* C7: the timer phase of a step takes t off each timer, floored at zero,
\* t the whole number of ticks elapsed since the last timer update (a step
\* that executes LDDV or LDSV sets that timer afterwards).
TimersDecayByTicks ==
    [][LET t == WholeTicks(elapsed')
       IN  /\ (ins' # NotFetched /\ ins'.op # "LDDV")
                => dt' = IF dt > t THEN dt - t ELSE 0
           /\ (ins' # NotFetched /\ ins'.op # "LDSV")
                => st' = IF st > t THEN st - t ELSE 0]_vars

\* C8: the timers stay in 0..255 and never increase except in a step that
\* executes LDDV (delay) or LDSV (sound); once the ticks elapsed reach a
\* timer's value it is exactly zero, and it stays zero until set.
TimersMonotonic ==
    /\ dt \in 0..255 /\ st \in 0..255
    /\ [][/\ dt' \in 0..255 /\ st' \in 0..255
          /\ ins'.op # "LDDV" => dt' <= dt
          /\ ins'.op # "LDSV" => st' <= st
          /\ (ins'.op # "LDDV" /\ WholeTicks(elapsed') >= dt) => dt' = 0
          /\ (ins'.op # "LDSV" /\ WholeTicks(elapsed') >= st) => st' = 0]_vars

\* LDDV had set the delay timer to V0 = 3, 300 ticks passed, and the step
\* that executed LDSV took it to zero (and set the sound timer)
TimersWitness ==
    ins.op = "LDSV" /\ v[0] = 3 /\ st = 3 /\ dt = 0 /\ elapsed = 5000

\* C9: register round trip: LDMV(k), the registers zeroed, LDVM(k), the index
\* register touched by no other instruction in between (so it holds what the
\* LDMV left in it) and both ranges in bounds: V0..Vk are their original
\* values.
RegisterRoundTrip ==
    [][(/\ ins'.op = "LDVM"
        /\ dump # <<>>
        /\ dump[1].x = ins'.x
        /\ i = dump[1].after
        /\ i + ins'.x < RamLen
        /\ \A j \in 0..(VLen - 1) : v[j] = 0)
         => \A j \in 0..ins'.x : v'[j] = dump[1].v[j]]_vars

\* C9 as amended: LDMV(k) at I = a, the registers zeroed, the index register
\* set back to a, LDVM(k), memory written by no instruction in between:
\* V0..Vk are their original values.
RegisterRoundTripSetBack ==
    [][(/\ ins'.op = "LDVM"
        /\ dump # <<>>
        /\ dump[1].x = ins'.x
        /\ i = dump[1].at
        /\ \A j \in 0..(VLen - 1) : v[j] = 0)
         => \A j \in 0..ins'.x : v'[j] = dump[1].v[j]]_vars

\* LDVM(15) has loaded V0..V15 from the cells LDMV(15) stored them in, the
\* range ending at the last cell of memory
RoundTripWitness ==
    /\ ins = [op |-> "LDVM", x |-> 15]
    /\ dump # <<>>
    /\ dump[1].at = RamLen - VLen
    /\ i = RamLen
    /\ \A j \in 0..(VLen - 1) : v[j] = dump[1].v[j] /\ v[j] # 0

\* the display bits of row cy the sprite byte at column px lands on: the
\* leftmost pixel of the byte at column px, column 0 the top bit of the row
Landed(sprite, px) ==
    {56 - px + k : k \in Bits(sprite)} \cap (0..(RowBits - 1))

\* a pixel of the n-row sprite at I, drawn at (px, py), lands on a set bit
Collides(n, px, py) ==
    \E r \in 0..(n - 1) :
        /\ py + r < ScreenLen
        /\ Landed(ram[i + r], px) \cap screen[py + r] # {}

\* C10: after an executed DRW, VF is 1 if a sprite pixel landed on a display
\* bit that was set, and 0 otherwise (so the second of two draws of an
\* all-ones sprite at the same place leaves VF = 1).
DrawSetsCollisionFlag ==
    [][(/\ ins'.op = "DRW"
        /\ ~panicked'
        /\ ins'.n > 0
        /\ i + ins'.n <= RamLen)
         => v'[15] = IF Collides(ins'.n, v[ins'.x], v[ins'.y]) THEN 1 ELSE 0]_vars

\* C11: for x # 15, ADDC leaves Vx = (Vx + Vy) mod 256 and VF = 1 exactly
\* when Vx + Vy > 255; SUB leaves Vx = (Vx - Vy) mod 256 and VF = 1 exactly
\* when Vx >= Vy; SUBN leaves Vx = (Vy - Vx) mod 256 and VF = 1 exactly when
\* Vy >= Vx; ADDB leaves Vx = (Vx + kk) mod 256 and VF unchanged.
ArithmeticWraps ==
    [][ins'.op \in {"ADDC", "SUB", "SUBN", "ADDB"} /\ ins'.x # 15 =>
        LET x  == ins'.x
            op == ins'.op
        IN  /\ op = "ADDC" =>
                /\ v'[x] = (v[x] + v[ins'.y]) % 256
                /\ v'[15] = IF v[x] + v[ins'.y] > 255 THEN 1 ELSE 0
            /\ op = "SUB" =>
                /\ v'[x] = (v[x] - v[ins'.y]) % 256
                /\ v'[15] = IF v[x] >= v[ins'.y] THEN 1 ELSE 0
            /\ op = "SUBN" =>
                /\ v'[x] = (v[ins'.y] - v[x]) % 256
                /\ v'[15] = IF v[ins'.y] >= v[x] THEN 1 ELSE 0
            /\ op = "ADDB" =>
                /\ v'[x] = (v[x] + ins'.kk) % 256
                /\ v'[15] = v[15]]_vars

\* ADDC V0, V1 has run on 0xFF + 0x01 and left 0 with the flag set, or
\* SUB V0, V1 on 5 - 3 and left 2 with the flag set, or ADDB V14, 1 on 0xFF
\* and left 0 with VF still 7
ArithmeticWitness ==
    \/ ins = [op |-> "ADDC", x |-> 0, y |-> 1] /\ v[1] = 1 /\ v[0] = 0 /\ v[15] = 1
    \/ ins = [op |-> "SUB", x |-> 0, y |-> 1] /\ v[1] = 3 /\ v[0] = 2 /\ v[15] = 1
    \/ ins = [op |-> "ADDB", x |-> 14, kk |-> 1] /\ v[14] = 0 /\ v[15] = 7

\* C12: SHR and SHL, for every x and y in 0..15: the source is the old Vx
\* with high-precision-shift enabled and the old Vy with it disabled; VF ends
\* equal to the bit shifted out of the source (bit 0 for SHR, bit 7 for SHL)
\* and, for x # 15, Vx ends equal to the source shifted by one place modulo
\* 256.
ShiftsHonourQuirk ==
    [][ins'.op \in {"SHR", "SHL"} =>
        LET x   == ins'.x
            src == IF hp_shift THEN v[x] ELSE v[ins'.y]
        IN  /\ ins'.op = "SHR" =>
                /\ v'[15] = src % 2
                /\ x # 15 => v'[x] = src \div 2
            /\ ins'.op = "SHL" =>
                /\ v'[15] = src \div 128
                /\ x # 15 => v'[x] = (src * 2) % 256]_vars

\* C13, the part that needs no keypad to state: a step executing LDK(x)
\* either waits, leaving the program counter and the registers as they were,
\* or has seen a key and stores its code (0..15) into Vx and goes on to the
\* next instruction; it does not end the run. (SKP skips when key Vx is
\* down and SKNP when it is not; the machine has no key state to read.)
LdkWaitsForKey ==
    [][ins'.op = "LDK" =>
        /\ ~panicked'
        /\ \/ pc' = pc /\ v' = v
           \/ pc' = pc + 2 /\ v'[ins'.x] \in 0..15]_vars

\* C14: a step whose fetched word decodes to Unrecognized leaves the
\* registers, the index register, the stack, the stack pointer, memory and
\* the display unchanged and advances the program counter by exactly 2.
UnrecognizedIsNoOp ==
    [][ins' = None =>
        /\ v' = v /\ i' = i /\ stk' = stk /\ sp' = sp
        /\ ram' = ram /\ screen' = screen
        /\ pc' = pc + 2]_vars

\* the word 0x8AB8 was fetched from the seventh place of the program and
\* decoded to Unrecognized, with a call on the stack, registers loaded and a
\* sprite on the display
UnrecognizedWitness ==
    /\ ins = None /\ val = 35512
    /\ pc = At(7)
    /\ sp = 1 /\ stk[0] = At(0) /\ v[1] = 9 /\ v[15] = 0 /\ i = 777
    /\ screen[0] # {}

\* C15: a step fetches, decodes and executes exactly when pc + 1 <= 4095;
\* when pc + 1 is outside memory it fetches and executes nothing and leaves
\* the program counter and all state other than the timers unchanged, and
\* so every later step is halted in the same way.
PcBoundsFault ==
    /\ [][/\ (ins' # NotFetched) <=> (pc + 1 <= RamLen - 1)
          /\ pc + 1 > RamLen - 1 =>
                /\ pc' = pc /\ v' = v /\ i' = i /\ sp' = sp /\ stk' = stk
                /\ ram' = ram /\ screen' = screen /\ ~panicked']_vars
    /\ [](pc + 1 > RamLen - 1 => [](pc + 1 > RamLen - 1))

\* a step found the program counter at the last cell of memory, or past the
\* end at 0x10FE, and fetched nothing, the machine as the program left it
PcBoundsWitness ==
    /\ pc \in {RamLen - 1, 4350}
    /\ ins = NotFetched /\ step_result = "unit"
    /\ i = 777

\* C16: a step that executes SEB, SNEB, SEV or SNEV at program counter p
\* ends at p + 4 exactly when the condition holds (Vx = kk, Vx # kk,
\* Vx = Vy, Vx # Vy) and at p + 2 otherwise, and changes no register, memory
\* cell, stack slot or display row.
SkipsAdvance ==
    [][ins'.op \in {"SEB", "SNEB", "SEV", "SNEV"} =>
        LET op   == ins'.op
            cond == CASE op = "SEB"  -> v[ins'.x] = ins'.kk
                      [] op = "SNEB" -> v[ins'.x] # ins'.kk
                      [] op = "SEV"  -> v[ins'.x] = v[ins'.y]
                      [] op = "SNEV" -> v[ins'.x] # v[ins'.y]
        IN  /\ pc' = IF cond THEN pc + 4 ELSE pc + 2
            /\ v' = v /\ ram' = ram /\ stk' = stk /\ screen' = screen]_vars

\* SEV V0, V1 found both registers 7 and skipped, or SNEV V14, V15 found 7
\* and 7 and did not, or SEB V15, 255 found 255 and skipped
SkipsWitness ==
    \/ ins = [op |-> "SEV", x |-> 0, y |-> 1] /\ v[0] = 7 /\ v[1] = 7 /\ pc = At(4)
    \/ ins = [op |-> "SNEV", x |-> 14, y |-> 15] /\ v[14] = 7 /\ v[15] = 7 /\ pc = At(3)
    \/ ins = [op |-> "SEB", x |-> 15, kk |-> 255] /\ v[15] = 255 /\ pc = At(3)

\* C17: LDMV(x) and LDVM(x) take effect exactly when I + x <= 4095. When
\* not, memory, the registers and the index register are unchanged. When
\* so, LDMV writes V0..Vx to the cells I..I+x and no other cell, LDVM the
\* cells I..I+x to V0..Vx and no other register, and the index register
\* grows by x + 1 with auto-increment-index enabled and is unchanged with
\* it disabled.
RangeCopyFrame ==
    [][ins'.op \in {"LDMV", "LDVM"} =>
        LET x == ins'.x
        IN  IF i + x <= RamLen - 1
            THEN /\ i' = IF mem_inc THEN i + x + 1 ELSE i
                 /\ ins'.op = "LDMV" =>
                      /\ v' = v
                      /\ \A a \in 0..(RamLen - 1) :
                           ram'[a] = IF a >= i /\ a <= i + x THEN v[a - i] ELSE ram[a]
                 /\ ins'.op = "LDVM" =>
                      /\ ram' = ram
                      /\ \A k \in 0..(VLen - 1) :
                           v'[k] = IF k <= x THEN ram[i + k] ELSE v[k]
            ELSE ram' = ram /\ v' = v /\ i' = i]_vars

\* LDMV(15) has filled the last 16 cells of memory, or LDVM(7) has found its
\* range one cell too long and left the registers and the index register
RangeCopyWitness ==
    \/ /\ ins = [op |-> "LDMV", x |-> 15]
       /\ i = RamLen
       /\ ram[RamLen - 1] = v[15] /\ v[15] # 0
    \/ /\ ins = [op |-> "LDVM", x |-> 7]
       /\ i = RamLen - 7
       /\ v[7] # 0

\* C18: with wrap-sprite enabled an executed DRW draws at column Vx as it is,
\* for every Vx in 0..255: the sprite pixels at columns up to 63 are XORed
\* into their rows and the pixels at columns beyond 63 change no display bit
\* (none is wrapped to another column), the shift that drops them staying
\* within the row's 64 bits; so with Vx >= 64 every row is unchanged.
DrawDropsOverhang ==
    [][(/\ ins'.op = "DRW"
        /\ wrap_tex
        /\ ins'.n > 0
        /\ i + ins'.n <= RamLen)
         => LET px == v[ins'.x]
                py == v[ins'.y]
            IN  /\ ~panicked'
                /\ \A r \in 0..(ScreenLen - 1) :
                     screen'[r] =
                        IF r >= py /\ r < py + ins'.n
                        THEN RowXor(screen[r], Landed(ram[i + r - py], px))
                        ELSE screen[r]]_vars

\* C19: in every state reachable from construction the program counter is at
\* most 0x1100 (0xFFF + 0xFF + 2), no pc += 2 of a skip or of the stepper
\* overflows the 16 bits of the program counter, and every return address
\* held in the stack is at most 4094.
PcStaysLow ==
    /\ pc <= 4352
    /\ \A k \in 0..(StkLen - 1) : stk[k] <= RamLen - 2
    /\ ~panicked

\* JPV 0xFFF with V0 = 255 has taken the program counter to 0x1100, or a CALL
\* in the last word of memory has pushed 4094
PcWitness ==
    \/ pc = 4352 /\ ins.op = "JPV"
    \/ ins.op = "CALL" /\ sp = 1 /\ stk[0] = RamLen - 2

\* C20: the index register never overflows: ADDI leaves I + Vx, LDIS leaves
\* 0x050 + 5 * Vx, an LDMV or LDVM that copies leaves I + x + 1 (with
\* auto-increment-index), each computed without exceeding the width of its
\* arithmetic, and the result fits 16 bits.
IndexNeverOverflows ==
    /\ i \in 0..(U16 - 1)
    /\ [][/\ ins'.op \in {"ADDI", "LDIS", "LDMV", "LDVM"} => ~panicked'
          /\ ins'.op = "ADDI" => i' = i + v[ins'.x]
          /\ ins'.op = "LDIS" => i' = FontBase + 5 * v[ins'.x]
          /\ (ins'.op \in {"LDMV", "LDVM"} /\ i + ins'.x < RamLen /\ mem_inc)
                => i' = i + ins'.x + 1]_vars

=============================================================================
